---------------------------- MODULE Spec2Model ----------------------------
(***************************************************************************)
(* A model of TestEnvMatrixCreator (src/lib/testresultlog/                 *)
(* testmatrixcreator.py).                                                  *)
(*                                                                         *)
(* A Python str is a sequence of one-character strings, a list a sequence, *)
(* a dict a function whose DOMAIN is the dict's key set.  The object has   *)
(* no fields: the state is the arguments and results of the calls made on  *)
(* it, the files it appends to and the commands it has run.  The print()   *)
(* calls of the source write to stdout only and are left out.              *)
(***************************************************************************)
EXTENDS Integers, Sequences, FiniteSets, TLC

VARIABLES
    called,                     \* the methods called so far in the slicing run
    test,                       \* str(test) handed to the two slicing methods
    test_module_name,           \* result of _get_test_module_name
    test_function_name,         \* result of _get_test_function_name
    module_class_list,          \* argument of generate_test_module_key_...
    test_module_class_dict,     \* its result
    test_module_function_list,  \* argument of generate_test_moduleclass_key_...
    test_module_func_dict,      \* its result
    testsuites_list,            \* argument of _create_testsuite_testcase_list
    json_object,                \* its result
    file_content,               \* result of generate_testsuite_testcase_json_...
    pc,                         \* position of the caller
    files,                      \* the file system: path -> text of existing files
    file0,                      \* the file system before the first call
    calls,                      \* the write and push calls made so far, in order
    runs,                       \* the argument lists handed to subprocess.run
    ret,                        \* outcome of the last push call
    invocations,                \* build-then-write invocations that have written
    test_suite,                 \* the suite returned by loader.discover
    stack,                      \* the live generator frames, innermost last
    yielded                     \* the tests the outermost generator has yielded

sliceVars == <<called, test, test_module_name, test_function_name>>
keyVars   == <<module_class_list, test_module_class_dict>>
groupVars == <<test_module_function_list, test_module_func_dict,
               testsuites_list, json_object, file_content, invocations>>
fileVars  == <<files, file0, calls, runs, ret>>
flatVars  == <<test_suite, stack, yielded>>
vars == <<pc, sliceVars, keyVars, groupVars, fileVars, flatVars>>

---------------------------------------------------------------------------
(* Bounds of the model. *)

MaxStrLen == 5
MaxKeyLen == 3
MaxModuleClasses == 2
MaxTests == 3
MaxSuites == 2
MaxCalls == 3
MaxInvSuites == 2
MaxInvocations == 2
MaxNodes == 4

(* All sequences over S of length at most n. *)
SeqsUpTo(S, n) == UNION {[1..m -> S] : m \in 0..n}

---------------------------------------------------------------------------
(* Python's str operations, as the code uses them. *)

(* str.find(c) for a one-character c: the 0-based index of the first
   occurrence, -1 when there is none. *)
find(s, c) ==
    IF \E i \in 1..Len(s) : s[i] = c
    THEN (CHOOSE i \in 1..Len(s) :
              s[i] = c /\ \A j \in 1..(i - 1) : s[j] # c) - 1
    ELSE -1

(* One bound of a slice: a negative index counts from the end, and the
   result is clamped to 0..len. *)
SliceIndex(n, x) ==
    IF x < 0 THEN (IF x + n < 0 THEN 0 ELSE x + n)
    ELSE (IF x > n THEN n ELSE x)

(* s[start:stop] *)
Slice(s, start, stop) ==
    LET a == SliceIndex(Len(s), start)
        b == SliceIndex(Len(s), stop)
    IN  IF a >= b THEN <<>> ELSE SubSeq(s, a + 1, b)

(* s[start:] *)
SliceFrom(s, start) == Slice(s, start, Len(s))

(* '%s.%s' % (a, b) *)
DotFormat(a, b) == a \o <<".">> \o b

(* '%s (%s)' % (f, k): the text unittest gives a test (str(test)). *)
TestFormat(f, k) == f \o <<" ", "(">> \o k \o <<")">>

---------------------------------------------------------------------------
(* The slicing methods. *)

_get_test_module_name(t) == Slice(t, find(t, "(") + 1, find(t, ")"))

(* The function name cut at the '(' itself: the space before it is kept. *)
FunctionNameKeepsSpace(t) == Slice(t, 0, find(t, "("))

_get_test_function_name(t) == Slice(t, 0, find(t, "(") - 1)

(* The module name cut at the last '.' of the key (rfind) instead of the
   first. *)
ModuleNameFromKeyLastDot(key) ==
    LET dots == {i \in 1..Len(key) : key[i] = "."}
    IN  Slice(key, 0, IF dots = {} THEN -1
                      ELSE (CHOOSE i \in dots : \A j \in dots : j <= i) - 1)

_get_test_module_name_from_key(key) == Slice(key, 0, find(key, "."))

_get_test_class_name_from_key(key) == SliceFrom(key, find(key, ".") + 1)

---------------------------------------------------------------------------
(* The two dictionary builders.  Each is the for loop of the source, run
   over the list from its head with the dictionary built so far. *)

EmptyDict == [k \in {} |-> <<>>]

(* if key in d: d[key].append(value)  else: d[key] = [value] *)
DictAppend(d, key, value) ==
    IF key \in DOMAIN d
    THEN [d EXCEPT ![key] = Append(@, value)]
    ELSE d @@ (key :> <<value>>)

RECURSIVE FuncDictLoop(_, _)
FuncDictLoop(list, d) ==
    IF list = <<>> THEN d
    ELSE FuncDictLoop(Tail(list),
                      DictAppend(d, _get_test_module_name(Head(list)),
                                    _get_test_function_name(Head(list))))

(* The loop with every value assigned, d[key] = [value], never appended. *)
RECURSIVE FuncDictLoopOverwrite(_, _)
FuncDictLoopOverwrite(list, d) ==
    IF list = <<>> THEN d
    ELSE LET key == _get_test_module_name(Head(list))
             value == _get_test_function_name(Head(list))
         IN  FuncDictLoopOverwrite(Tail(list),
                 [k \in DOMAIN d \cup {key} |->
                      IF k = key THEN <<value>> ELSE d[k]])

FuncDictOverwrite(list) == FuncDictLoopOverwrite(list, EmptyDict)

generate_test_moduleclass_key_test_function_value_dictionary(list) ==
    FuncDictLoop(list, EmptyDict)

RECURSIVE ClassDictLoop(_, _)
ClassDictLoop(list, d) ==
    IF list = <<>> THEN d
    ELSE LET module_class == Head(list)
             module_name == _get_test_module_name_from_key(module_class)
             class_name == DotFormat(module_name,
                               _get_test_class_name_from_key(module_class))
         IN  ClassDictLoop(Tail(list), DictAppend(d, module_name, class_name))

generate_test_module_key_test_moduleclass_value_dictionary(list) ==
    ClassDictLoop(list, EmptyDict)

---------------------------------------------------------------------------
(* The nested testsuite/testcase structure.  A call either returns a value
   or raises: [exc |-> "None", value |-> v] or [exc |-> "KeyError"]. *)

Return(v) == [exc |-> "None", value |-> v]
Raise(e) == [exc |-> e]

(* A testcase named by its function alone. *)
TestcaseDictNoPrefix(testsuite_name, testcase) ==
    [testcasename |-> testcase, testresult |-> <<>>, testlog |-> <<>>]

(* One testcase_dict of _create_testcase_list; "" is the empty sequence. *)
testcase_dict(testsuite_name, testcase) ==
    [testcasename |-> DotFormat(testsuite_name, testcase),
     testresult |-> <<>>,
     testlog |-> <<>>]

(* The loop stopped one testcase early. *)
CreateTestcaseListDropLast(testcase_list, testsuite_name) ==
    [i \in 1..(Len(testcase_list) - 1) |->
        testcase_dict(testsuite_name, testcase_list[i])]

_create_testcase_list(testcase_list, testsuite_name) ==
    [i \in 1..Len(testcase_list) |->
        testcase_dict(testsuite_name, testcase_list[i])]

(* The loop of _create_testsuite_testcase_list from testsuite i on, with
   the list of testsuite_dicts appended so far.  test_module_func_dict
   [testsuite] raises KeyError for a missing key, and the exception leaves
   the function: the list built so far is dropped with the frame. *)
RECURSIVE TestsuiteLoop(_, _, _, _)
TestsuiteLoop(list, d, i, acc) ==
    IF i > Len(list) THEN Return([testsuite |-> acc])
    ELSE IF list[i] \notin DOMAIN d THEN Raise("KeyError")
    ELSE TestsuiteLoop(list, d, i + 1,
             Append(acc, [testsuitename |-> list[i],
                          testcase |-> _create_testcase_list(d[list[i]], list[i])]))

(* The same loop with the missing key skipped or the partial list returned:
   what dict.get, or a try/except around the loop, would do. *)
RECURSIVE TestsuiteLoopPartial(_, _, _, _)
TestsuiteLoopPartial(list, d, i, acc) ==
    IF i > Len(list) THEN Return([testsuite |-> acc])
    ELSE IF list[i] \notin DOMAIN d THEN Return([testsuite |-> acc])
    ELSE TestsuiteLoopPartial(list, d, i + 1,
             Append(acc, [testsuitename |-> list[i],
                          testcase |-> _create_testcase_list(d[list[i]], list[i])]))

CreateTestsuiteListPartial(list, d) == TestsuiteLoopPartial(list, d, 1, <<>>)

_create_testsuite_testcase_list(list, d) == TestsuiteLoop(list, d, 1, <<>>)

---------------------------------------------------------------------------
(* TestEnvMatrixJsonEncoder.start_encode: the JSON text of the structure,
   one character per element, keys in insertion order, with the default
   separators of json.dumps.  The names of the model hold no character
   that JSON escapes. *)

Quote == "\""

JsonString(s) == <<Quote>> \o s \o <<Quote>>

RECURSIVE JsonJoin(_)
JsonJoin(texts) ==
    IF texts = <<>> THEN <<>>
    ELSE IF Len(texts) = 1 THEN texts[1]
    ELSE texts[1] \o <<",", " ">> \o JsonJoin(Tail(texts))

JsonList(texts) == <<"[">> \o JsonJoin(texts) \o <<"]">>

JsonMember(key, text) == JsonString(key) \o <<":", " ">> \o text

JsonObject(members) == <<"{">> \o JsonJoin(members) \o <<"}">>

K_testsuite == <<"t", "e", "s", "t", "s", "u", "i", "t", "e">>
K_testsuitename == K_testsuite \o <<"n", "a", "m", "e">>
K_testcase == <<"t", "e", "s", "t", "c", "a", "s", "e">>
K_testcasename == K_testcase \o <<"n", "a", "m", "e">>
K_testresult == <<"t", "e", "s", "t", "r", "e", "s", "u", "l", "t">>
K_testlog == <<"t", "e", "s", "t", "l", "o", "g">>

EncodeTestcase(tc) ==
    JsonObject(<<JsonMember(K_testcasename, JsonString(tc.testcasename)),
                 JsonMember(K_testresult, JsonString(tc.testresult)),
                 JsonMember(K_testlog, JsonString(tc.testlog))>>)

EncodeTestsuite(ts) ==
    JsonObject(<<JsonMember(K_testsuitename, JsonString(ts.testsuitename)),
                 JsonMember(K_testcase,
                     JsonList([i \in 1..Len(ts.testcase) |->
                                  EncodeTestcase(ts.testcase[i])]))>>)

start_encode(obj) ==
    JsonObject(<<JsonMember(K_testsuite,
                     JsonList([i \in 1..Len(obj.testsuite) |->
                                  EncodeTestsuite(obj.testsuite[i])]))>>)

(* The structure encoded twice into one text. *)
GenerateJsonTwice(list, d) ==
    LET r == _create_testsuite_testcase_list(list, d)
    IN  IF r.exc # "None" THEN r
        ELSE Return(start_encode(r.value) \o start_encode(r.value))

(* The encoding of a partial structure returned in place of the KeyError. *)
GenerateJsonPartial(list, d) ==
    Return(start_encode(CreateTestsuiteListPartial(list, d).value))

(* generate_testsuite_testcase_json_data_structure: a KeyError of the
   builder passes through it, so the encoder is not reached. *)
generate_testsuite_testcase_json_data_structure(list, d) ==
    LET testsuite_testcase_list == _create_testsuite_testcase_list(list, d)
    IN  IF testsuite_testcase_list.exc # "None" THEN testsuite_testcase_list
        ELSE Return(start_encode(testsuite_testcase_list.value))

---------------------------------------------------------------------------
(* The file system and the external command. *)

(* The text of the file at path p; a missing file holds no text. *)
FileText(fs, p) == IF p \in DOMAIN fs THEN fs[p] ELSE <<>>

(* open(file_path, 'w'): the text already in the file is dropped. *)
OpenTruncateWrite(fs, file_path, text) ==
    [p \in DOMAIN fs \cup {file_path} |->
        IF p = file_path THEN text ELSE fs[p]]

(* with open(file_path, 'a') as the_file: the_file.write(file_content)
   A missing file is created; the text goes after what the file holds, in
   one write. *)
write_testsuite_testcase_json_data_structure_to_file(fs, file_path, text) ==
    [p \in DOMAIN fs \cup {file_path} |->
        IF p = file_path THEN FileText(fs, p) \o text ELSE fs[p]]

(* The argument list of push_testsuite_testcase_json_file_to_git_repo. *)
PushArgv(file_dir, git_repo) ==
    <<"oe-git-archive", file_dir, "-g", git_repo>>

(* What the operating system makes of one command: it cannot be started,
   or it runs and exits with a status. *)
ExitStatuses == {0, 1}

CommandOutcomes ==
    {[started |-> FALSE]}
        \cup {[started |-> TRUE, status |-> rc] : rc \in ExitStatuses}

(* subprocess.run(argv, check=True): a non-zero status is raised. *)
SubprocessRunCheck(argv, outcome) ==
    IF ~outcome.started THEN Raise("OSError")
    ELSE IF outcome.status # 0 THEN Raise("CalledProcessError")
    ELSE Return([args |-> argv, returncode |-> outcome.status])

(* subprocess.run(argv): OSError when the command cannot be started,
   otherwise a CompletedProcess carrying the exit status, whatever it is. *)
SubprocessRun(argv, outcome) ==
    IF ~outcome.started THEN Raise("OSError")
    ELSE Return([args |-> argv, returncode |-> outcome.status])

push_testsuite_testcase_json_file_to_git_repo(file_dir, git_repo, outcome) ==
    SubprocessRun(PushArgv(file_dir, git_repo), outcome)

---------------------------------------------------------------------------
(* The values of the variables a specification does not use. *)

Unset == [exc |-> "unset"]

IdleSlice ==
    /\ called = {}
    /\ test = <<>>
    /\ test_module_name = <<>>
    /\ test_function_name = <<>>

IdleKey ==
    /\ module_class_list = <<>>
    /\ test_module_class_dict = EmptyDict

IdleGroup ==
    /\ test_module_function_list = <<>>
    /\ test_module_func_dict = EmptyDict
    /\ testsuites_list = <<>>
    /\ json_object = Unset
    /\ file_content = Unset
    /\ invocations = 0

IdleFile ==
    /\ files = EmptyDict
    /\ file0 = EmptyDict
    /\ calls = <<>>
    /\ runs = <<>>
    /\ ret = Unset

IdleFlat ==
    /\ test_suite = [tests |-> <<>>]
    /\ stack = <<>>
    /\ yielded = <<>>

---------------------------------------------------------------------------
(* SpecSlice: the two slicing methods applied to one test string. *)

TestChars == {"t", "m", "(", ")", " "}

InitSlice ==
    /\ pc = "slice"
    /\ test \in SeqsUpTo(TestChars, MaxStrLen)
    /\ called = {}
    /\ test_module_name = <<>>
    /\ test_function_name = <<>>
    /\ IdleKey /\ IdleGroup /\ IdleFile /\ IdleFlat

CallGetTestModuleName ==
    /\ pc = "slice"
    /\ "module" \notin called
    /\ called' = called \cup {"module"}
    /\ test_module_name' = _get_test_module_name(test)
    /\ UNCHANGED <<pc, test, test_function_name,
                   keyVars, groupVars, fileVars, flatVars>>

CallGetTestFunctionName ==
    /\ pc = "slice"
    /\ "function" \notin called
    /\ called' = called \cup {"function"}
    /\ test_function_name' = _get_test_function_name(test)
    /\ UNCHANGED <<pc, test, test_module_name,
                   keyVars, groupVars, fileVars, flatVars>>

NextSlice == CallGetTestModuleName \/ CallGetTestFunctionName

SpecSlice == InitSlice /\ [][NextSlice]_vars

(* s is '<f> (<k>)' with no parenthesis in f and no ')' in k: i is the
   place of the '(' that follows f and the space. *)
IsTestString(s) ==
    \E i \in 2..(Len(s) - 1) :
        /\ s[i] = "(" /\ s[i - 1] = " " /\ s[Len(s)] = ")"
        /\ \A j \in 1..(i - 1) : s[j] \notin {"(", ")"}
        /\ \A j \in (i + 1)..(Len(s) - 1) : s[j] # ")"

(* The text of s before the first ' (': the prefix of s that ' (' follows
   and that holds no ' (' ending inside it or right after it. *)
BeforeFirstSpaceParen(s) ==
    LET at(n) == n + 2 <= Len(s) /\ s[n + 1] = " " /\ s[n + 2] = "("
    IN  SubSeq(s, 1, CHOOSE n \in 0..Len(s) :
                         at(n) /\ \A m \in 0..(n - 1) : ~at(m))

(* The text of s between the first '(' and the first ')'. *)
BetweenFirstParens(s) ==
    LET open == CHOOSE i \in 1..Len(s) :
                    s[i] = "(" /\ \A j \in 1..(i - 1) : s[j] # "("
        close == CHOOSE i \in 1..Len(s) :
                    s[i] = ")" /\ \A j \in 1..(i - 1) : s[j] # ")"
    IN  SubSeq(s, open + 1, close - 1)

SliceDone == called = {"module", "function"}

(* C8 as stated: for every test string s, '<f> (<k>)' built from the two
   slices of s is s again. *)
C8_RoundTripEveryString ==
    SliceDone => TestFormat(test_function_name, test_module_name) = test

(* C8 amended: for every s of the form '<f> (<k>)' with no parenthesis in
   f and no ')' in k, the two slices of s give back s as '<f> (<k>)', f is
   the text before the first ' (' and k the text between the first '(' and
   the first ')'. *)
C8_RoundTripTestStrings ==
    (SliceDone /\ IsTestString(test)) =>
        /\ TestFormat(test_function_name, test_module_name) = test
        /\ test_function_name = BeforeFirstSpaceParen(test)
        /\ test_module_name = BetweenFirstParens(test)

C8_Witness ==
    /\ SliceDone
    /\ IsTestString(test)
    /\ test_function_name # <<>>
    /\ test_module_name # <<>>

---------------------------------------------------------------------------
(* SpecKey: generate_test_module_key_test_moduleclass_value_dictionary
   applied to one list of module_class strings. *)

KeyChars == {"m", "."}

InitKey ==
    /\ pc = "key"
    /\ module_class_list \in
           SeqsUpTo(SeqsUpTo(KeyChars, MaxKeyLen), MaxModuleClasses)
    /\ test_module_class_dict = EmptyDict
    /\ IdleSlice /\ IdleGroup /\ IdleFile /\ IdleFlat

CallGenerateModuleDict ==
    /\ pc = "key"
    /\ pc' = "key_done"
    /\ test_module_class_dict' =
           generate_test_module_key_test_moduleclass_value_dictionary(
               module_class_list)
    /\ UNCHANGED <<module_class_list,
                   sliceVars, groupVars, fileVars, flatVars>>

NextKey == CallGenerateModuleDict

SpecKey == InitKey /\ [][NextKey]_vars

(* The text of s before its first '.', all of s when it has none. *)
BeforeFirstDot(s) ==
    SubSeq(s, 1, CHOOSE n \in 0..Len(s) :
                     /\ \A i \in 1..n : s[i] # "."
                     /\ (n = Len(s) \/ s[n + 1] = "."))

HasDot(s) == \E i \in 1..Len(s) : s[i] = "."

(* d stores every string of list once per occurrence, unchanged, in input
   order, under the text before its first '.', and nothing else. *)
StoresInputs(list, d) ==
    /\ DOMAIN d = {BeforeFirstDot(list[i]) : i \in 1..Len(list)}
    /\ \A k \in DOMAIN d :
           d[k] = SelectSeq(list, LAMBDA x : BeforeFirstDot(x) = k)

(* C9 as stated: for every input list, the values hold the input strings
   unchanged, once per occurrence, in input order, under the text before
   the first '.'. *)
C9_PreservesEveryInput ==
    pc = "key_done" => StoresInputs(module_class_list, test_module_class_dict)

(* C9 amended: the same for every input list whose strings all hold a '.'. *)
C9_PreservesDottedInputs ==
    (pc = "key_done" /\ \A i \in 1..Len(module_class_list) :
                            HasDot(module_class_list[i]))
        => StoresInputs(module_class_list, test_module_class_dict)

C9_Witness ==
    /\ pc = "key_done"
    /\ Len(module_class_list) = 2
    /\ \A i \in 1..2 : HasDot(module_class_list[i])
    /\ module_class_list[1] # module_class_list[2]
    /\ \E k \in DOMAIN test_module_class_dict :
           k # <<>> /\ Len(test_module_class_dict[k]) = 2

---------------------------------------------------------------------------
(* SpecGroup: a list of discovered tests is grouped into the dictionary,
   and the dictionary and a list of testsuite names into the structure. *)

Functions == {<<"f">>, <<"g">>}
ModuleClasses == {<<"m", ".", "A">>, <<"m", ".", "B">>}

(* str(test) of the discovered tests, and one string that is not of the
   form '<function> (<module.class>)'. *)
TestStrings ==
    {TestFormat(f, k) : f \in Functions, k \in ModuleClasses}
        \cup {<<"f", "(", "m", ")">>}

(* A testsuite name that no test string of the model yields as a key. *)
NotAKey == <<"x">>

InitGroup ==
    /\ pc = "group"
    /\ test_module_function_list \in SeqsUpTo(TestStrings, MaxTests)
    /\ test_module_func_dict = EmptyDict
    /\ testsuites_list = <<>>
    /\ json_object = Unset
    /\ file_content = Unset
    /\ invocations = 0
    /\ IdleSlice /\ IdleKey /\ IdleFile /\ IdleFlat

CallGenerateFuncDict ==
    /\ pc = "group"
    /\ pc' = "dict"
    /\ test_module_func_dict' =
           generate_test_moduleclass_key_test_function_value_dictionary(
               test_module_function_list)
    /\ UNCHANGED <<test_module_function_list, testsuites_list, json_object,
                   file_content, invocations,
                   sliceVars, keyVars, fileVars, flatVars>>

CallCreateTestsuiteList ==
    /\ pc = "dict"
    /\ pc' = "built"
    /\ \E list \in SeqsUpTo(DOMAIN test_module_func_dict \cup {NotAKey},
                            MaxSuites) :
           /\ testsuites_list' = list
           /\ json_object' =
                  _create_testsuite_testcase_list(list, test_module_func_dict)
    /\ UNCHANGED <<test_module_function_list, test_module_func_dict,
                   file_content, invocations,
                   sliceVars, keyVars, fileVars, flatVars>>

NextGroup == CallGenerateFuncDict \/ CallCreateTestsuiteList

SpecGroup == InitGroup /\ [][NextGroup]_vars

(* The number of places of seq that hold x. *)
Occurrences(seq, x) == Cardinality({i \in 1..Len(seq) : seq[i] = x})

RECURSIVE SumLen(_)
SumLen(seqs) == IF seqs = <<>> THEN 0 ELSE Len(Head(seqs)) + SumLen(Tail(seqs))

(* C7: the keys of the dictionary are exactly the module names extracted
   from the inputs, no value list is empty, and the value of key k is the
   function names of exactly the inputs whose module name is k, in input
   order, a repeated input repeated. *)
C7_GroupsByModuleClass ==
    pc \in {"dict", "built"} =>
        LET list == test_module_function_list
            d == test_module_func_dict
        IN  /\ DOMAIN d = {_get_test_module_name(list[i]) : i \in 1..Len(list)}
            /\ \A k \in DOMAIN d :
                   LET mine == SelectSeq(list,
                                   LAMBDA x : _get_test_module_name(x) = k)
                   IN  /\ d[k] # <<>>
                       /\ d[k] = [i \in 1..Len(mine) |->
                                     _get_test_function_name(mine[i])]

C7_Witness ==
    /\ pc = "dict"
    /\ Cardinality(DOMAIN test_module_func_dict) = 2
    /\ \E i, j \in 1..Len(test_module_function_list) :
           i # j /\ test_module_function_list[i] = test_module_function_list[j]
    /\ \E k \in DOMAIN test_module_func_dict :
           Len(test_module_func_dict[k]) = 2

(* list holds each key of d exactly once. *)
EachKeyOnce(list, d) ==
    /\ Len(list) = Cardinality(DOMAIN d)
    /\ {list[i] : i \in 1..Len(list)} = DOMAIN d

AllTestStrings(list) == \A i \in 1..Len(list) : IsTestString(list[i])

(* The testsuite_dicts of obj named k. *)
SuitesNamed(obj, k) == SelectSeq(obj.testsuite, LAMBDA ts : ts.testsuitename = k)

(* C3: for tests of the form '<function> (<module.class>)' and a testsuite
   list holding each key of the dictionary once, the structure is returned,
   its testcase entries are as many as the tests, and each test '<f> (<k>)'
   is a testcase named '<k>.<f>' of the one testsuite named '<k>', as many
   times as it occurs in the input. *)
C3_GroupingLosesNothing ==
    (/\ pc = "built"
     /\ AllTestStrings(test_module_function_list)
     /\ EachKeyOnce(testsuites_list, test_module_func_dict)) =>
        /\ json_object.exc = "None"
        /\ SumLen([i \in 1..Len(json_object.value.testsuite) |->
                      json_object.value.testsuite[i].testcase])
               = Len(test_module_function_list)
        /\ \A i \in 1..Len(test_module_function_list) :
               LET t == test_module_function_list[i]
                   f == BeforeFirstSpaceParen(t)
                   k == BetweenFirstParens(t)
                   suites == SuitesNamed(json_object.value, k)
               IN  /\ Len(suites) = 1
                   /\ Occurrences([j \in 1..Len(suites[1].testcase) |->
                                      suites[1].testcase[j].testcasename],
                                  DotFormat(k, f))
                          = Occurrences(test_module_function_list, t)

C3_Witness ==
    /\ pc = "built"
    /\ AllTestStrings(test_module_function_list)
    /\ EachKeyOnce(testsuites_list, test_module_func_dict)
    /\ Len(testsuites_list) = 2
    /\ Len(test_module_function_list) = 3
    /\ \E i, j \in 1..3 :
           i # j /\ test_module_function_list[i] = test_module_function_list[j]

AllKeys(list, d) == \A i \in 1..Len(list) : list[i] \in DOMAIN d

(* C4: when every name of testsuite_list is a key, the structure is
   returned and mirrors the inputs position by position: entry i of
   'testsuite' is named testsuite_list[i], and place j of its 'testcase'
   list is named '<testsuitename>.<function>' for function j of
   test_module_func_dict[testsuite_list[i]], with 'testresult' and 'testlog'
   the empty string; both lists have the lengths of their inputs. *)
C4_MirrorsInputs ==
    (pc = "built" /\ AllKeys(testsuites_list, test_module_func_dict)) =>
        /\ json_object.exc = "None"
        /\ DOMAIN json_object.value = {"testsuite"}
        /\ Len(json_object.value.testsuite) = Len(testsuites_list)
        /\ \A i \in 1..Len(testsuites_list) :
               LET ts == json_object.value.testsuite[i]
                   funcs == test_module_func_dict[testsuites_list[i]]
               IN  /\ DOMAIN ts = {"testsuitename", "testcase"}
                   /\ ts.testsuitename = testsuites_list[i]
                   /\ Len(ts.testcase) = Len(funcs)
                   /\ \A j \in 1..Len(funcs) :
                          ts.testcase[j] =
                              [testcasename |->
                                   ts.testsuitename \o <<".">> \o funcs[j],
                               testresult |-> <<>>,
                               testlog |-> <<>>]

C4_Witness ==
    /\ pc = "built"
    /\ AllKeys(testsuites_list, test_module_func_dict)
    /\ Len(testsuites_list) = 2
    /\ testsuites_list[1] = testsuites_list[2]
    /\ Len(test_module_func_dict[testsuites_list[1]]) = 2
    /\ Len(json_object.value.testsuite) = 2

---------------------------------------------------------------------------
(* SpecFile: any sequence of write and push calls over a file system that
   holds some files before the first call. *)

Paths == {"p", "q"}
InitialTexts == {<<>>, <<"z">>}
Contents == {<<>>, <<"a">>, <<"b", "c">>}
FileDirs == {"d", "e"}
GitRepos == {"r"}

InitFile ==
    /\ pc = "file"
    /\ files \in UNION {[P -> InitialTexts] : P \in SUBSET Paths}
    /\ file0 = files
    /\ calls = <<>>
    /\ runs = <<>>
    /\ ret = Unset
    /\ IdleSlice /\ IdleKey /\ IdleGroup /\ IdleFlat

CallWrite ==
    /\ pc = "file"
    /\ Len(calls) < MaxCalls
    /\ \E file_path \in Paths, text \in Contents :
           /\ files' = write_testsuite_testcase_json_data_structure_to_file(
                           files, file_path, text)
           /\ calls' = Append(calls, [op |-> "write", file_path |-> file_path,
                                      file_content |-> text])
    /\ ret' = Return("None")
    /\ UNCHANGED <<pc, file0, runs, sliceVars, keyVars, groupVars, flatVars>>

CallPush ==
    /\ pc = "file"
    /\ Len(calls) < MaxCalls
    /\ \E file_dir \in FileDirs, git_repo \in GitRepos,
          outcome \in CommandOutcomes :
           /\ runs' = Append(runs, PushArgv(file_dir, git_repo))
           /\ ret' = push_testsuite_testcase_json_file_to_git_repo(
                         file_dir, git_repo, outcome)
           /\ calls' = Append(calls, [op |-> "push", file_dir |-> file_dir,
                                      git_repo |-> git_repo,
                                      outcome |-> outcome])
    /\ UNCHANGED <<pc, files, file0, sliceVars, keyVars, groupVars, flatVars>>

NextFile == CallWrite \/ CallPush

SpecFile == InitFile /\ [][NextFile]_vars

(* The texts of seq joined in order, by halves. *)
RECURSIVE ConcatAll(_)
ConcatAll(seq) ==
    IF seq = <<>> THEN <<>>
    ELSE IF Len(seq) = 1 THEN seq[1]
    ELSE LET mid == Len(seq) \div 2
         IN  ConcatAll(SubSeq(seq, 1, mid))
                 \o ConcatAll(SubSeq(seq, mid + 1, Len(seq)))

(* The contents of the write calls on path p, in call order. *)
WrittenTo(p) ==
    LET ws == SelectSeq(calls, LAMBDA c : c.op = "write" /\ c.file_path = p)
    IN  [i \in 1..Len(ws) |-> ws[i].file_content]

(* C1: after any sequence of calls the text of every path is the text it
   held before the first call (none for a missing file) followed by the
   contents written to that path, in call order; the files that exist are
   those that existed and those written to. *)
C1_WriteAppends ==
    /\ DOMAIN files = DOMAIN file0 \cup {p \in Paths : WrittenTo(p) # <<>>}
    /\ \A p \in Paths :
           FileText(files, p) = FileText(file0, p) \o ConcatAll(WrittenTo(p))

C1_Witness ==
    /\ FileText(file0, "p") # <<>>
    /\ "q" \notin DOMAIN file0
    /\ Len(calls) = 3
    /\ calls[1].op = "write" /\ calls[1].file_path = "p"
    /\ calls[2].op = "write" /\ calls[2].file_path = "q"
    /\ calls[3].op = "write" /\ calls[3].file_path = "p"
    /\ calls[1].file_content # <<>>
    /\ calls[3].file_content # <<>>
    /\ calls[1].file_content # calls[3].file_content

PushStep ==
    /\ Len(calls') = Len(calls) + 1
    /\ calls'[Len(calls')].op = "push"

(* C6: a push call hands subprocess.run one argument list,
   ['oe-git-archive', file_dir, '-g', git_repo], leaves every file as it
   was, and when the command ran returns its exit status, zero or not, in
   the CompletedProcess it returns. *)
C6_PushRunsCommandOnce ==
    [][PushStep =>
           LET c == calls'[Len(calls')]
               argv == <<"oe-git-archive", c.file_dir, "-g", c.git_repo>>
           IN  /\ runs' = Append(runs, argv)
               /\ files' = files
               /\ c.outcome.started =>
                      ret' = [exc |-> "None",
                              value |-> [args |-> argv,
                                         returncode |-> c.outcome.status]]]_vars

C6_Witness ==
    /\ Len(calls) = 2
    /\ calls[1].op = "write" /\ calls[1].file_content # <<>>
    /\ calls[2].op = "push"
    /\ calls[2].outcome.started /\ calls[2].outcome.status = 1
    /\ ret.exc = "None" /\ ret.value.returncode = 1
    /\ Len(runs) = 1

---------------------------------------------------------------------------
(* SpecInvoke: invocations of the build-then-write sequence on one file,
   which does not exist before the first of them.
   An invocation calls generate_testsuite_testcase_json_data_structure and
   then, when that returned, write_testsuite_testcase_json_data_structure_
   to_file with the text it returned; a KeyError ends the invocation. *)

JsonPath == "p"

(* The dictionaries handed to the invocations. *)
InvokeDicts ==
    {generate_test_moduleclass_key_test_function_value_dictionary(list) :
        list \in {<<TestFormat(<<"f">>, <<"m", ".", "A">>),
                    TestFormat(<<"g">>, <<"m", ".", "A">>)>>,
                  <<TestFormat(<<"f">>, <<"m", ".", "A">>),
                    TestFormat(<<"f">>, <<"m", ".", "B">>)>>}}

InitInvoke ==
    /\ pc = "ready"
    /\ test_module_func_dict \in InvokeDicts
    /\ test_module_function_list = <<>>
    /\ testsuites_list = <<>>
    /\ json_object = Unset
    /\ file_content = Unset
    /\ invocations = 0
    /\ files = EmptyDict
    /\ file0 = files
    /\ calls = <<>>
    /\ runs = <<>>
    /\ ret = Unset
    /\ IdleSlice /\ IdleKey /\ IdleFlat

InvokeGenerate ==
    /\ pc \in {"ready", "raised"}
    /\ invocations < MaxInvocations
    /\ \E list \in SeqsUpTo(DOMAIN test_module_func_dict \cup {NotAKey},
                            MaxInvSuites) :
           /\ testsuites_list' = list
           /\ json_object' =
                  _create_testsuite_testcase_list(list, test_module_func_dict)
           /\ file_content' =
                  generate_testsuite_testcase_json_data_structure(
                      list, test_module_func_dict)
    /\ pc' = IF file_content'.exc = "None" THEN "generated" ELSE "raised"
    /\ UNCHANGED <<test_module_function_list, test_module_func_dict,
                   invocations, fileVars, sliceVars, keyVars, flatVars>>

InvokeWrite ==
    /\ pc = "generated"
    /\ pc' = "ready"
    /\ files' = write_testsuite_testcase_json_data_structure_to_file(
                    files, JsonPath, file_content.value)
    /\ calls' = Append(calls, [op |-> "write", file_path |-> JsonPath,
                               file_content |-> file_content.value])
    /\ ret' = Return("None")
    /\ invocations' = invocations + 1
    /\ UNCHANGED <<test_module_function_list, test_module_func_dict,
                   testsuites_list, json_object, file_content, file0, runs,
                   sliceVars, keyVars, flatVars>>

NextInvoke == InvokeGenerate \/ InvokeWrite

SpecInvoke == InitInvoke /\ [][NextInvoke]_vars

(* A reader of concatenated JSON texts.  It keeps the open brackets, whether
   it is inside a string, and the documents completed so far: a document
   ends where the bracket that opened it at the top level is closed.  The
   texts of the model hold no escaped character. *)
ScanStart == [open |-> <<>>, instr |-> FALSE, docs |-> 0, ok |-> TRUE]

ScanStep(st, c) ==
    IF ~st.ok THEN st
    ELSE IF st.instr THEN [st EXCEPT !.instr = (c # Quote)]
    ELSE IF c = Quote THEN [st EXCEPT !.instr = TRUE, !.ok = (st.open # <<>>)]
    ELSE IF c \in {"{", "["} THEN [st EXCEPT !.open = Append(@, c)]
    ELSE IF c \in {"}", "]"} THEN
        IF st.open # <<>> /\ st.open[Len(st.open)] = (IF c = "}" THEN "{" ELSE "[")
        THEN [st EXCEPT !.open = SubSeq(@, 1, Len(@) - 1),
                        !.docs = IF Len(st.open) = 1 THEN @ + 1 ELSE @]
        ELSE [st EXCEPT !.ok = FALSE]
    ELSE [st EXCEPT !.ok = (st.open # <<>> \/ c = " ")]

(* The reader's state after text[lo..hi], started in st, by halves. *)
RECURSIVE ScanRange(_, _, _, _)
ScanRange(st, text, lo, hi) ==
    IF lo > hi THEN st
    ELSE IF lo = hi THEN ScanStep(st, text[lo])
    ELSE LET mid == (lo + hi) \div 2
             half == ScanRange(st, text, lo, mid)
         IN  IF half.ok THEN ScanRange(half, text, mid + 1, hi) ELSE half

Scan(text) == ScanRange(ScanStart, text, 1, Len(text))

(* text is a run of n complete JSON documents and nothing else. *)
IsDocuments(text, n) ==
    LET st == Scan(text)
    IN  st.ok /\ st.open = <<>> /\ ~st.instr /\ st.docs = n

(* C2: the structure an invocation builds is one object with the one key
   'testsuite', the text it returns is one complete JSON document, and the
   file is at every moment a run of complete documents, one per invocation
   that has written. *)
C2_OneDocumentPerInvocation ==
    /\ pc = "generated" =>
           /\ json_object.exc = "None"
           /\ DOMAIN json_object.value = {"testsuite"}
           /\ IsDocuments(file_content.value, 1)
    /\ IsDocuments(FileText(files, JsonPath), invocations)
    /\ Len(calls) = invocations

C2_Witness ==
    /\ invocations = 2
    /\ pc = "ready"
    /\ Len(testsuites_list) = 2
    /\ Len(json_object.value.testsuite[1].testcase) = 2
    /\ calls[1].file_content # calls[2].file_content
    /\ FileText(files, JsonPath)
           = calls[1].file_content \o calls[2].file_content

GenerateStep == pc \in {"ready", "raised"} /\ pc' \in {"generated", "raised"}

(* C10: a call of generate_testsuite_testcase_json_data_structure with a
   testsuite name that is not a key raises KeyError and returns no text,
   the file is as it was before the call, and it stays so until a later
   call has returned a document. *)
C10_MissingKeyWritesNothing ==
    [][/\ (GenerateStep /\ ~AllKeys(testsuites_list', test_module_func_dict))
           => /\ pc' = "raised"
              /\ file_content' = [exc |-> "KeyError"]
              /\ files' = files
       /\ pc = "raised" => files' = files]_vars

C10_Witness ==
    /\ pc = "raised"
    /\ invocations = 1
    /\ Len(testsuites_list) = 2
    /\ testsuites_list[1] \in DOMAIN test_module_func_dict
    /\ testsuites_list[2] = NotAKey
    /\ file_content = [exc |-> "KeyError"]
    /\ FileText(files, JsonPath) = calls[1].file_content
    /\ FileText(files, JsonPath) # <<>>

---------------------------------------------------------------------------
(* SpecFlat: the generator of _generate_flat_list_of_test_module_function
   run to exhaustion over the suite loader.discover returned.  A test is a
   TestCase, [leaf |-> name], or a TestSuite, [tests |-> its members].  A
   frame is one activation of the generator: the suite it iterates and the
   place of its for loop.  The innermost frame runs; what it yields passes
   through the 'yield subtest' of every frame under it to the consumer. *)

LeafNames == {"a", "b"}

RECURSIVE TreesOfSize(_), ForestsOfSize(_)
(* The tests made of n nodes, and the lists of tests made of n nodes. *)
TreesOfSize(n) ==
    IF n = 1 THEN {[leaf |-> x] : x \in LeafNames} \cup {[tests |-> <<>>]}
    ELSE {[tests |-> f] : f \in ForestsOfSize(n - 1)}

ForestsOfSize(n) ==
    IF n = 0 THEN {<<>>}
    ELSE UNION {{<<t>> \o f : t \in TreesOfSize(k), f \in ForestsOfSize(n - k)}
                   : k \in 1..n}

(* A test for suites that takes an empty suite for a test case. *)
IsNotSuiteOrEmpty(t) == "tests" \notin DOMAIN t \/ t.tests = <<>>

(* unittest.suite._isnotsuite(test): a TestCase cannot be iterated. *)
_isnotsuite(t) == "tests" \notin DOMAIN t

InitFlat ==
    /\ pc = "flat"
    /\ test_suite \in {[tests |-> f] : f \in UNION {ForestsOfSize(n) : n \in 0..MaxNodes}}
    /\ stack = <<>>
    /\ yielded = <<>>
    /\ IdleSlice /\ IdleKey /\ IdleGroup /\ IdleFile

(* load_test_module_and_test_function: the generator is created over the
   discovered suite; its body has not started. *)
CallLoad ==
    /\ pc = "flat"
    /\ pc' = "iterating"
    /\ stack' = <<[test_suite |-> test_suite, i |-> 1]>>
    /\ UNCHANGED <<test_suite, yielded,
                   sliceVars, keyVars, groupVars, fileVars>>

Top == stack[Len(stack)]

Current == Top.test_suite.tests[Top.i]

(* for test in test_suite: if _isnotsuite(test): yield test *)
GenYield ==
    /\ pc = "iterating"
    /\ Top.i <= Len(Top.test_suite.tests)
    /\ _isnotsuite(Current)
    /\ yielded' = Append(yielded, Current)
    /\ stack' = [stack EXCEPT ![Len(stack)].i = @ + 1]
    /\ UNCHANGED <<pc, test_suite, sliceVars, keyVars, groupVars, fileVars>>

(* else: for subtest in self._generate_flat_list_of_test_module_function(test) *)
GenDescend ==
    /\ pc = "iterating"
    /\ Top.i <= Len(Top.test_suite.tests)
    /\ ~_isnotsuite(Current)
    /\ stack' = Append(stack, [test_suite |-> Current, i |-> 1])
    /\ UNCHANGED <<pc, test_suite, yielded,
                   sliceVars, keyVars, groupVars, fileVars>>

(* The for loop of the innermost frame is over: the generator returns, and
   the frame under it goes on to its next test; the return of the outermost
   frame is the consumer's StopIteration. *)
GenReturn ==
    /\ pc = "iterating"
    /\ Top.i > Len(Top.test_suite.tests)
    /\ IF Len(stack) = 1
       THEN /\ stack' = <<>>
            /\ pc' = "exhausted"
       ELSE /\ stack' = [SubSeq(stack, 1, Len(stack) - 1)
                            EXCEPT ![Len(stack) - 1].i = @ + 1]
            /\ pc' = pc
    /\ UNCHANGED <<test_suite, yielded,
                   sliceVars, keyVars, groupVars, fileVars>>

NextFlat == CallLoad \/ GenYield \/ GenDescend \/ GenReturn

(* The consumer is a for loop over the generator: it asks for the next
   test until the generator is exhausted. *)
SpecFlat == InitFlat /\ [][NextFlat]_vars /\ WF_vars(NextFlat)

(* The leaves of t in depth-first left-to-right order. *)
RECURSIVE LeafSeq(_)
LeafSeq(t) ==
    IF "leaf" \in DOMAIN t THEN <<t>>
    ELSE ConcatAll([i \in 1..Len(t.tests) |-> LeafSeq(t.tests[i])])

IsPrefix(a, b) == Len(a) <= Len(b) /\ a = SubSeq(b, 1, Len(a))

(* C5: for every tree of suites the generator is exhausted after finitely
   many steps, what it has yielded is at every moment a prefix of the
   leaves of the tree in depth-first left-to-right order and holds no
   suite, and at exhaustion it is all of them, each once per occurrence. *)
C5_FlattensTree ==
    /\ [](/\ IsPrefix(yielded, LeafSeq(test_suite))
          /\ \A i \in 1..Len(yielded) : "leaf" \in DOMAIN yielded[i]
          /\ pc = "exhausted" => yielded = LeafSeq(test_suite))
    /\ <>(pc = "exhausted")

C5_Witness ==
    /\ pc = "exhausted"
    /\ test_suite = [tests |-> <<[tests |-> <<[leaf |-> "b"], [tests |-> <<>>]>>],
                                 [leaf |-> "a"]>>]
    /\ yielded = <<[leaf |-> "b"], [leaf |-> "a"]>>

---------------------------------------------------------------------------
(* The whole model: a run is a run of one of the specifications above,
   told apart by pc. *)

Init == InitSlice \/ InitKey \/ InitGroup \/ InitFile \/ InitInvoke \/ InitFlat

Next == NextSlice \/ NextKey \/ NextGroup \/ NextFile \/ NextInvoke \/ NextFlat

Spec == Init /\ [][Next]_vars

============================================================================
